---- MODULE Spec2Model ----
(***************************************************************************)
(* Model of src/lib/error-rule-detector.ts: the ErrorRuleDetector          *)
(* singleton, its three rule indices, the reload protocol guarded by the   *)
(* isLoading flag, the lazy ensureInitialized() and the two detection      *)
(* entry points detectAsync() and detect().                                *)
(*                                                                         *)
(* JavaScript runs every synchronous segment to completion, so one action  *)
(* is one such segment: the code between two awaits.  The awaits are       *)
(*   - await getActiveErrorRules()        (reload, line 116)               *)
(*   - await new Promise(setTimeout 100)  (ensureInitialized, line 93)     *)
(*   - await this.reload()                (ensureInitialized, line 98)     *)
(*   - await this.ensureInitialized()     (detectAsync, line 219)          *)
(***************************************************************************)
EXTENDS Integers, Sequences, FiniteSets, TLC

\* ------------------------------------------------------------------ bounds
NumCallers == 2      \* concurrent ensureInitialized() activations
NumReloaders == 2    \* concurrent reload() activations (explicit / event)
MaxFetches == 2      \* store fetches started in one behaviour
MaxRules == 2        \* rules per fetched list in the lookup specification
MaxMsgLen == 2       \* message length in the lookup specification

\* ------------------------------------------------------------------ strings
\* A string is a sequence of one-character strings.
Lower(c) ==
    CASE c = "A" -> "a"
      [] c = "B" -> "b"
      [] OTHER -> c

\* String.prototype.toLowerCase
ToLowerCase(s) == [i \in 1..Len(s) |-> Lower(s[i])]

IsSpace(c) == c = " "

RECURSIVE TrimStart(_)
TrimStart(s) ==
    IF Len(s) > 0 /\ IsSpace(s[1]) THEN TrimStart(Tail(s)) ELSE s

RECURSIVE TrimEnd(_)
TrimEnd(s) ==
    IF Len(s) > 0 /\ IsSpace(s[Len(s)])
    THEN TrimEnd(SubSeq(s, 1, Len(s) - 1))
    ELSE s

\* String.prototype.trim
Trim(s) == TrimEnd(TrimStart(s))

\* String.prototype.includes
Includes(s, t) ==
    \E i \in 0..(Len(s) - Len(t)) : SubSeq(s, i + 1, i + Len(t)) = t

\* A message argument: a string, or absent (null / undefined).
Msg(s) == [absent |-> FALSE, text |-> s]
AbsentMsg == [absent |-> TRUE, text |-> <<>>]

\* !errorMessage || errorMessage.length === 0
IsEmptyMessage(m) == m.absent \/ Len(m.text) = 0

\* ------------------------------------------------------------------ regex
\* The patterns of the model are written over letters, the space and the
\* metacharacters ^ $ ( ) +.  A compiled RegExp is represented by its source;
\* the flags are always "i" (line 160).
RECURSIVE ParenDepthOk(_, _)
ParenDepthOk(p, depth) ==
    IF Len(p) = 0 THEN depth = 0
    ELSE IF p[1] = "(" THEN ParenDepthOk(Tail(p), depth + 1)
    ELSE IF p[1] = ")" THEN depth > 0 /\ ParenDepthOk(Tail(p), depth - 1)
    ELSE ParenDepthOk(Tail(p), depth)

\* new RegExp(pattern, "i") does not throw a SyntaxError: the groups are
\* balanced and every quantifier has something to repeat.
Compiles(p) ==
    /\ ParenDepthOk(p, 0)
    /\ \A i \in 1..Len(p) :
          p[i] = "+" => (i > 1 /\ p[i - 1] \notin {"(", "+", "^"})

\* A quantified group that itself holds a quantifier: star height above 1.
NestedQuantifier(p) ==
    \E j \in 1..(Len(p) - 1) :
        /\ p[j] = ")"
        /\ p[j + 1] = "+"
        /\ \E i \in 1..(j - 1) : p[i] = "+"

\* safeRegex(pattern): false for a pattern it cannot parse and for one whose
\* star height is above 1.
SafeRegex(p) == Compiles(p) /\ ~NestedQuantifier(p)

AnchoredStart(p) == Len(p) > 0 /\ p[1] = "^"
AnchoredEnd(p) == Len(p) > 0 /\ p[Len(p)] = "$"

RegexBody(p) ==
    SubSeq(p, IF AnchoredStart(p) THEN 2 ELSE 1,
              IF AnchoredEnd(p) THEN Len(p) - 1 ELSE Len(p))

\* pattern.test(s) for a pattern compiled with the "i" flag.  Every pattern
\* that passes lines 152-160 in the model is an optional ^, literal
\* characters and an optional $.
RegexTest(p, s) ==
    LET body == ToLowerCase(RegexBody(p))
        last == Len(s) - Len(body)
    IN  \E i \in 0..last :
            /\ AnchoredStart(p) => i = 0
            /\ AnchoredEnd(p) => i = last
            /\ ToLowerCase(SubSeq(s, i + 1, i + Len(body))) = body

\* ------------------------------------------------------------------ rules
\* A rule as getActiveErrorRules() returns it.  The description is copied
\* into the entries and read by nothing; the model leaves it out.
Rule(type, pattern, category) ==
    [matchType |-> type, pattern |-> pattern, category |-> category]

\* A pattern that is no string: the row's pattern column came back null.
NullPattern == <<"null">>

IsString(pattern) == \A i \in 1..Len(pattern) : pattern[i] # "null"

\* Lines 130 and 140: rule.pattern.toLowerCase() raises a TypeError for a
\* pattern that is no string, outside the try of lines 151-169.
Throws(rule) ==
    rule.matchType \in {"contains", "exact"} /\ ~IsString(rule.pattern)

\* The loop of lines 127-176 ends by throwing.
LoopThrows(rules) == \E i \in 1..Len(rules) : Throws(rules[i])

\* The three indices (lines 61-63).  exact is the Map in insertion order,
\* its keys unique.
EmptyIndices == [regex |-> <<>>, contains |-> <<>>, exact |-> <<>>]

\* Map.prototype.set: an existing key keeps its place and takes the value.
MapSet(m, key, value) ==
    IF \E i \in 1..Len(m) : m[i].text = key
    THEN [i \in 1..Len(m) |-> IF m[i].text = key THEN value ELSE m[i]]
    ELSE Append(m, value)

MapHas(m, key) == \E i \in 1..Len(m) : m[i].text = key

\* Map.prototype.get, for a key the map holds.
MapGet(m, key) == m[CHOOSE i \in 1..Len(m) : m[i].text = key]

\* A loop that installs a regex rule without the screen of line 152.
ProcessRule_NoScreen(idx, rule) ==
    CASE rule.matchType = "contains" ->
            [idx EXCEPT !.contains =
                Append(@, [text |-> ToLowerCase(rule.pattern),
                           category |-> rule.category])]
      [] rule.matchType = "exact" ->
            [idx EXCEPT !.exact =
                MapSet(@, ToLowerCase(rule.pattern),
                       [text |-> ToLowerCase(rule.pattern),
                        category |-> rule.category])]
      [] rule.matchType = "regex" ->
            IF ~Compiles(rule.pattern) THEN idx
            ELSE [idx EXCEPT !.regex =
                    Append(@, [pattern |-> rule.pattern,
                               category |-> rule.category])]
      [] OTHER -> idx

\* One turn of the loop of reload(), lines 127-176.
ProcessRule(idx, rule) ==
    CASE rule.matchType = "contains" ->
            [idx EXCEPT !.contains =
                Append(@, [text |-> ToLowerCase(rule.pattern),
                           category |-> rule.category])]
      [] rule.matchType = "exact" ->
            [idx EXCEPT !.exact =
                MapSet(@, ToLowerCase(rule.pattern),
                       [text |-> ToLowerCase(rule.pattern),
                        category |-> rule.category])]
      [] rule.matchType = "regex" ->
            IF ~SafeRegex(rule.pattern) THEN idx
            ELSE IF ~Compiles(rule.pattern) THEN idx
            ELSE [idx EXCEPT !.regex =
                    Append(@, [pattern |-> rule.pattern,
                               category |-> rule.category])]
      [] OTHER -> idx

\* The loop of lines 127-176: it stops at the first rule that throws.
RECURSIVE ProcessRules(_, _)
ProcessRules(idx, rules) ==
    IF Len(rules) = 0 THEN idx
    ELSE IF Throws(rules[1]) THEN idx
    ELSE ProcessRules(ProcessRule(idx, rules[1]), Tail(rules))

\* Lines 119-121: the old indices are cleared.
Cleared(old) == EmptyIndices

\* Lines 119-176: the old indices are cleared, then the loop fills them.  No
\* await stands between the clearing and the end of the loop.
Compile(old, rules) == ProcessRules(Cleared(old), rules)

\* ------------------------------------------------------------------ lookup
NotMatched == [matched |-> FALSE]

Matched(category, pattern, type) ==
    [matched |-> TRUE, category |-> category, pattern |-> pattern,
     matchType |-> type]

\* A for-of loop that goes on to the end and keeps its last hit.
FirstHit_Last(hits) ==
    IF \E i \in 1..Len(hits) : hits[i]
    THEN CHOOSE i \in 1..Len(hits) :
            /\ hits[i]
            /\ \A j \in (i + 1)..Len(hits) : ~hits[j]
    ELSE 0

\* The index of the first TRUE of a list of test results, 0 if none: a
\* for-of loop that returns at its first hit.
FirstHit(hits) ==
    IF \E i \in 1..Len(hits) : hits[i]
    THEN CHOOSE i \in 1..Len(hits) :
            /\ hits[i]
            /\ \A j \in 1..(i - 1) : ~hits[j]
    ELSE 0

\* A detectAsync() that walks the regex tier first.
AsyncTiers_RegexFirst(idx, text) ==
    LET lowerMessage == ToLowerCase(text)
        trimmedMessage == Trim(lowerMessage)
        ContainsHit(e) == Includes(lowerMessage, e.text)
        RegexHit(e) == RegexTest(e.pattern, text)
        c == FirstHit([i \in 1..Len(idx.contains) |->
                            ContainsHit(idx.contains[i])])
        r == FirstHit([i \in 1..Len(idx.regex) |-> RegexHit(idx.regex[i])])
    IN  IF r # 0
        THEN Matched(idx.regex[r].category, idx.regex[r].pattern, "regex")
        ELSE IF c # 0
        THEN Matched(idx.contains[c].category, idx.contains[c].text, "contains")
        ELSE IF MapHas(idx.exact, trimmedMessage)
        THEN Matched(MapGet(idx.exact, trimmedMessage).category,
                     MapGet(idx.exact, trimmedMessage).text, "exact")
        ELSE NotMatched

\* Lines 221-259: the three tiers as detectAsync() walks them.
AsyncTiers(idx, text) ==
    LET lowerMessage == ToLowerCase(text)
        trimmedMessage == Trim(lowerMessage)
        ContainsHit(e) == Includes(lowerMessage, e.text)
        RegexHit(e) == RegexTest(e.pattern, text)
        c == FirstHit([i \in 1..Len(idx.contains) |->
                            ContainsHit(idx.contains[i])])
        r == FirstHit([i \in 1..Len(idx.regex) |-> RegexHit(idx.regex[i])])
    IN  IF c # 0
        THEN Matched(idx.contains[c].category, idx.contains[c].text, "contains")
        ELSE IF MapHas(idx.exact, trimmedMessage)
        THEN Matched(MapGet(idx.exact, trimmedMessage).category,
                     MapGet(idx.exact, trimmedMessage).text, "exact")
        ELSE IF r # 0
        THEN Matched(idx.regex[r].category, idx.regex[r].pattern, "regex")
        ELSE NotMatched

\* A detect() that looks the exact tier up without trimming the message.
SyncTiers_NoTrim(idx, text) ==
    LET lowerMessage == ToLowerCase(text)
        ContainsHit(e) == Includes(lowerMessage, e.text)
        RegexHit(e) == RegexTest(e.pattern, text)
        c == FirstHit([i \in 1..Len(idx.contains) |->
                            ContainsHit(idx.contains[i])])
        r == FirstHit([i \in 1..Len(idx.regex) |-> RegexHit(idx.regex[i])])
    IN  IF c # 0
        THEN Matched(idx.contains[c].category, idx.contains[c].text, "contains")
        ELSE IF MapHas(idx.exact, lowerMessage)
        THEN Matched(MapGet(idx.exact, lowerMessage).category,
                     MapGet(idx.exact, lowerMessage).text, "exact")
        ELSE IF r # 0
        THEN Matched(idx.regex[r].category, idx.regex[r].pattern, "regex")
        ELSE NotMatched

\* Lines 277-315: the three tiers as detect() walks them.
SyncTiers(idx, text) ==
    LET lowerMessage == ToLowerCase(text)
        trimmedMessage == Trim(lowerMessage)
        ContainsHit(e) == Includes(lowerMessage, e.text)
        RegexHit(e) == RegexTest(e.pattern, text)
        c == FirstHit([i \in 1..Len(idx.contains) |->
                            ContainsHit(idx.contains[i])])
        r == FirstHit([i \in 1..Len(idx.regex) |-> RegexHit(idx.regex[i])])
    IN  IF c # 0
        THEN Matched(idx.contains[c].category, idx.contains[c].text, "contains")
        ELSE IF MapHas(idx.exact, trimmedMessage)
        THEN Matched(MapGet(idx.exact, trimmedMessage).category,
                     MapGet(idx.exact, trimmedMessage).text, "exact")
        ELSE IF r # 0
        THEN Matched(idx.regex[r].category, idx.regex[r].pattern, "regex")
        ELSE NotMatched

\* ------------------------------------------------------------------ state
VARIABLES
    regexPatterns,     \* line 61
    containsPatterns,  \* line 62
    exactPatterns,     \* line 63
    lastReloadTime,    \* line 64
    isLoading,         \* line 65
    isInitialized,     \* line 66
    store,             \* the rule store behind getActiveErrorRules()
    pc,                \* where each activation stands
    arg,               \* the message of a detectAsync() activation
    kind,              \* "bg": an activation that detect() started
    cohort,            \* the call started before the first load completed
    fetched,           \* the store's answer on its way to the activation
    atCall,            \* what a reload() found when it started its fetch
    fetchCount,        \* store fetches started so far
    firstLoad,         \* the first completed load and the indices it left
    initLoaded,        \* a load started by ensureInitialized() has completed
    lastOp             \* the segment that ran last and what it returned

engine == <<regexPatterns, containsPatterns, exactPatterns, lastReloadTime,
            isLoading, isInitialized>>
procs == <<pc, arg, kind, cohort, fetched>>
history == <<atCall, fetchCount, firstLoad, initLoaded>>
vars == <<engine, store, procs, history, lastOp>>

Callers == 1..NumCallers
Reloaders == (NumCallers + 1)..(NumCallers + NumReloaders)
Procs == Callers \cup Reloaders

Indices ==
    [regex |-> regexPatterns, contains |-> containsPatterns,
     exact |-> exactPatterns]

\* getStats(), lines 321-331.
GetStats ==
    [regexCount |-> Len(regexPatterns),
     containsCount |-> Len(containsPatterns),
     exactCount |-> Len(exactPatterns),
     totalCount |-> Len(regexPatterns) + Len(containsPatterns)
                        + Len(exactPatterns),
     lastReloadTime |-> lastReloadTime,
     isLoading |-> isLoading]

\* isEmpty(), lines 336-342.
IsEmpty ==
    Len(regexPatterns) = 0 /\ Len(containsPatterns) = 0
        /\ Len(exactPatterns) = 0

\* Date.now() (line 178) as a logical clock: the number of fetches started,
\* at least 1 whenever a reload reaches line 178.
Now == fetchCount

\* ------------------------------------------------------------------ store
\* Two rule sets that differ in every tier, each with rules the loop skips.
RulesOne ==
    << Rule("contains", <<"A", "b">>, "c1"),
       Rule("exact", <<"B">>, "c2"),
       Rule("regex", <<"^", "b">>, "c3"),
       Rule("regex", <<"(", "a", "+", ")", "+", "$">>, "c4") >>

RulesTwo ==
    << Rule("regex", <<"(">>, "c5"),
       Rule("regex", <<"a">>, "c6"),
       Rule("fuzzy", <<"a">>, "c7"),
       Rule("exact", <<"a", " ">>, "c8"),
       Rule("contains", <<"b", "b">>, "c9") >>

Up(rules) == [status |-> "ok", rules |-> rules]
\* relation "error_rules" does not exist (line 189)
NoTable == [status |-> "noTable", rules |-> <<>>]
\* any other failure of the query
Down == [status |-> "down", rules |-> <<>>]
NoAnswer == [status |-> "none", rules |-> <<>>]

StoreStates == {Up(RulesOne), Up(RulesTwo), NoTable, Down}

\* "aB" is matched by the contains tier of RulesOne and the regex tier of
\* RulesTwo, and by nothing in the empty indices.
Messages == {AbsentMsg, Msg(<<>>), Msg(<<"a", "B">>)}

\* ------------------------------------------------------------------ Init
\* The call or completion that ran last: its name, the activation, the
\* message, the value returned, whether the call belongs to the cohort, the
\* severity of the last log line and whether it ended by throwing.
Op(name, p, m, ret, coh, log, threw) ==
    [op |-> name, proc |-> p, arg |-> m, ret |-> ret, coh |-> coh,
     log |-> log, threw |-> threw]

\* A segment that is no call and returns nothing to a caller.
Internal == Op("internal", 0, AbsentMsg, NotMatched, FALSE, "none", FALSE)

NoCall == [held |-> FALSE, indices |-> EmptyIndices, lastReloadTime |-> 0]

Init ==
    /\ regexPatterns = <<>>
    /\ containsPatterns = <<>>
    /\ exactPatterns = <<>>
    /\ lastReloadTime = 0
    /\ isLoading = FALSE
    /\ isInitialized = FALSE
    /\ store \in StoreStates
    /\ pc = [p \in Procs |-> "idle"]
    /\ arg = [c \in Callers |-> AbsentMsg]
    /\ kind = [c \in Callers |-> "async"]
    /\ cohort = [c \in Callers |-> FALSE]
    /\ fetched = [p \in Procs |-> NoAnswer]
    /\ atCall = [p \in Procs |-> NoCall]
    /\ fetchCount = 0
    /\ firstLoad = [done |-> FALSE, snap |-> EmptyIndices]
    /\ initLoaded = FALSE
    /\ lastOp = Op("init", 0, AbsentMsg, NotMatched, FALSE, "none", FALSE)

\* ------------------------------------------------------------------ reload
\* Activations have no identity of their own: a new one takes the lowest
\* slot that is free.
FreeSlot(S, p) ==
    /\ p \in S
    /\ pc[p] = "idle"
    /\ \A q \in S : q < p => pc[q] # "idle"

\* A reload() without its guard.
ReloadInProgress_Never == FALSE

\* Line 106: the guard of reload().
ReloadInProgress == isLoading

\* reload() from its entry to the await of line 116, called by activation p.
\* skipped is where p stands when the guard returns at once.
ReloadCall(p, skipped) ==
    IF ReloadInProgress
    THEN /\ pc' = [pc EXCEPT ![p] = skipped]
         /\ UNCHANGED <<engine, atCall, fetchCount>>
    ELSE /\ fetchCount < MaxFetches
         /\ isLoading' = TRUE
         /\ pc' = [pc EXCEPT ![p] = "fetching"]
         /\ atCall' = [atCall EXCEPT ![p] =
                [held |-> TRUE, indices |-> Indices,
                 lastReloadTime |-> lastReloadTime]]
         /\ fetchCount' = fetchCount + 1
         /\ UNCHANGED <<regexPatterns, containsPatterns, exactPatterns,
                        lastReloadTime, isInitialized>>

\* Lines 107 and 114: what reload() logs before it awaits.
ReloadCallLog == IF ReloadInProgress THEN "warn" ELSE "info"

\* An explicit reload() call.
Reload(r) ==
    /\ FreeSlot(Reloaders, r)
    /\ ReloadCall(r, "idle")
    /\ lastOp' = Op("reload", r, AbsentMsg, NotMatched, FALSE,
                    ReloadCallLog, FALSE)
    /\ UNCHANGED <<store, arg, kind, cohort, fetched, firstLoad, initLoaded>>

\* Lines 73-77: the errorRulesUpdated listener.
OnErrorRulesUpdated(r) ==
    /\ FreeSlot(Reloaders, r)
    /\ ReloadCall(r, "idle")
    /\ lastOp' = Op("event", r, AbsentMsg, NotMatched, FALSE,
                    ReloadCallLog, FALSE)
    /\ UNCHANGED <<store, arg, kind, cohort, fetched, firstLoad, initLoaded>>

\* The store runs the query of an awaited getActiveErrorRules(): what it
\* reads now is what the fetch will return.
StoreQuery(p) ==
    /\ pc[p] = "fetching"
    /\ pc' = [pc EXCEPT ![p] = "answered"]
    /\ fetched' = [fetched EXCEPT ![p] = store]
    /\ lastOp' = Internal
    /\ UNCHANGED <<engine, store, arg, kind, cohort, history>>

\* A promise job is queued: the continuation of a settled fetch (line 116),
\* of `await this.reload()` (line 98) or of `await this.ensureInitialized()`
\* (line 219).  The event loop runs no timer and no I/O callback before the
\* queued jobs have run.
JobQueued == \E p \in Procs : pc[p] \in {"settled", "afterReload", "ready"}

\* The I/O callback of the store's answer settles the promise that line 116
\* awaits.
AnswerArrives(p) ==
    /\ pc[p] = "answered"
    /\ ~JobQueued
    /\ pc' = [pc EXCEPT ![p] = "settled"]
    /\ lastOp' = Internal
    /\ UNCHANGED <<engine, store, arg, kind, cohort, fetched, history>>

\* Lines 186-197: the catch block logs and does not rethrow.
Rethrows(status) == FALSE

\* Lines 188-196: the severity of the failure's log line.
FailureLog(status) == IF status = "noTable" THEN "warn" ELSE "error"

\* A reload() that clears the indices before it knows the fetch succeeded.
KeptOnFailure_Cleared(old) == EmptyIndices

\* Line 197: a failed reload keeps the indices it found.
KeptOnFailure(old) == old

\* A reload() that resets isLoading at the end of its try block only.
LoadingAfter_NoFinally(succeeded) == ~succeeded

\* Lines 198-200: the finally block resets isLoading on every path.
LoadingAfter(succeeded) == FALSE

\* reload() from the await of line 116 to its end, run as a promise job once
\* the fetch has settled.
FetchComplete(p) ==
    /\ pc[p] = "settled"
    /\ LET answer == fetched[p]
           new == IF answer.status = "ok"
                  THEN Compile(Indices, answer.rules)
                  ELSE KeptOnFailure(Indices)
           succeeded == answer.status = "ok" /\ ~LoopThrows(answer.rules)
       IN  /\ regexPatterns' = new.regex
           /\ containsPatterns' = new.contains
           /\ exactPatterns' = new.exact
           /\ IF succeeded
              THEN /\ lastReloadTime' = Now
                   /\ isInitialized' = TRUE
              ELSE UNCHANGED <<lastReloadTime, isInitialized>>
           /\ isLoading' = LoadingAfter(succeeded)
           /\ lastOp' = Op("fetchComplete", p, AbsentMsg, NotMatched, FALSE,
                           IF succeeded THEN "info"
                           ELSE FailureLog(answer.status),
                           ~succeeded /\ Rethrows(answer.status))
    /\ pc' = [pc EXCEPT ![p] = IF p \in Callers THEN "afterReload" ELSE "idle"]
    /\ fetched' = [fetched EXCEPT ![p] = NoAnswer]
    /\ atCall' = [atCall EXCEPT ![p] = NoCall]
    /\ firstLoad' = IF firstLoad.done THEN firstLoad
                    ELSE [done |-> TRUE,
                          snap |-> [regex |-> regexPatterns',
                                    contains |-> containsPatterns',
                                    exact |-> exactPatterns']]
    /\ initLoaded' = (initLoaded \/ p \in Callers)
    /\ UNCHANGED <<store, arg, kind, cohort, fetchCount>>

\* ------------------------------------------------- ensureInitialized
\* Where an activation of kind k stands once ensureInitialized() returned:
\* detectAsync() goes on to the tiers, the activation detect() started ends.
Returned(k) == IF k = "async" THEN "ready" ELSE "idle"

\* An ensureInitialized() that looks at isLoading before isInitialized.
EnsureInitializedCall_LoadingFirst(c, k) ==
    IF isLoading
    THEN /\ pc' = [pc EXCEPT ![c] = "polling"]
         /\ UNCHANGED <<engine, atCall, fetchCount>>
    ELSE IF isInitialized
    THEN /\ pc' = [pc EXCEPT ![c] = Returned(k)]
         /\ UNCHANGED <<engine, atCall, fetchCount>>
    ELSE ReloadCall(c, "afterReload")

\* An ensureInitialized() that does not wait for a load in flight.
EnsureInitializedCall_NoWait(c, k) ==
    IF isInitialized \/ isLoading
    THEN /\ pc' = [pc EXCEPT ![c] = Returned(k)]
         /\ UNCHANGED <<engine, atCall, fetchCount>>
    ELSE ReloadCall(c, "afterReload")

\* ensureInitialized() from its entry to its first await or its return,
\* lines 84-98, for activation c of kind k.
EnsureInitializedCall(c, k) ==
    IF isInitialized
    THEN /\ pc' = [pc EXCEPT ![c] = Returned(k)]
         /\ UNCHANGED <<engine, atCall, fetchCount>>
    ELSE IF isLoading
    THEN /\ pc' = [pc EXCEPT ![c] = "polling"]
         /\ UNCHANGED <<engine, atCall, fetchCount>>
    ELSE ReloadCall(c, "afterReload")

\* Lines 92-95: the 100 ms timer of the wait loop fires.
PollTick(c) ==
    /\ pc[c] = "polling"
    /\ ~JobQueued
    /\ IF isLoading
       THEN UNCHANGED vars
       ELSE /\ pc' = [pc EXCEPT ![c] = Returned(kind[c])]
            /\ kind' = [kind EXCEPT ![c] = "async"]
            /\ lastOp' = Internal
            /\ UNCHANGED <<engine, store, arg, cohort, fetched, history>>

\* Line 99: the continuation of `await this.reload()`.
AfterReload(c) ==
    /\ pc[c] = "afterReload"
    /\ isInitialized' = TRUE
    /\ pc' = [pc EXCEPT ![c] = Returned(kind[c])]
    /\ kind' = [kind EXCEPT ![c] = "async"]
    /\ lastOp' = Internal
    /\ UNCHANGED <<regexPatterns, containsPatterns, exactPatterns,
                   lastReloadTime, isLoading, store, arg, cohort, fetched,
                   history>>

\* ------------------------------------------------------- detectAsync
\* detectAsync(m) from its entry to the await of line 219, lines 214-219.
DetectAsync(c, m) ==
    /\ FreeSlot(Callers, c)
    /\ IF IsEmptyMessage(m)
       THEN /\ lastOp' = Op("detectAsync.return", c, m, NotMatched, FALSE,
                            "none", FALSE)
            /\ UNCHANGED <<engine, store, procs, history>>
       ELSE /\ EnsureInitializedCall(c, "async")
            /\ arg' = [arg EXCEPT ![c] = m]
            /\ kind' = [kind EXCEPT ![c] = "async"]
            /\ cohort' = [cohort EXCEPT ![c] = ~firstLoad.done]
            /\ lastOp' = Op("detectAsync.call", c, m, NotMatched,
                            ~firstLoad.done,
                            IF ~isInitialized /\ ~isLoading
                            THEN ReloadCallLog ELSE "none", FALSE)
            /\ UNCHANGED <<store, fetched, firstLoad, initLoaded>>

\* detectAsync() after the await of line 219: lines 221-259.
Evaluate(c) ==
    /\ pc[c] = "ready"
    /\ lastOp' = Op("detectAsync.return", c, arg[c],
                    AsyncTiers(Indices, arg[c].text), cohort[c], "none",
                    FALSE)
    /\ pc' = [pc EXCEPT ![c] = "idle"]
    /\ arg' = [arg EXCEPT ![c] = AbsentMsg]
    /\ cohort' = [cohort EXCEPT ![c] = FALSE]
    /\ UNCHANGED <<engine, store, kind, fetched, history>>

\* ------------------------------------------------------------ detect
\* A detect() without the check of line 264: it starts no initialization.
Detect_NoInit(m) ==
    /\ lastOp' = Op("detect", 0, m,
                    IF IsEmptyMessage(m) THEN NotMatched
                    ELSE SyncTiers(Indices, m.text),
                    FALSE, "none", FALSE)
    /\ UNCHANGED <<engine, store, procs, history>>

\* detect(m), lines 262-316.  On an engine that is not initialized it
\* starts ensureInitialized() in an activation of its own and returns.
Detect(m) ==
    IF ~isInitialized
    THEN \E c \in Callers :
            /\ FreeSlot(Callers, c)
            /\ EnsureInitializedCall(c, "bg")
            /\ arg' = [arg EXCEPT ![c] = AbsentMsg]
            /\ kind' = [kind EXCEPT ![c] = "bg"]
            /\ cohort' = [cohort EXCEPT ![c] = FALSE]
            /\ lastOp' = Op("detect", c, m, NotMatched, FALSE,
                            IF ~isLoading THEN ReloadCallLog ELSE "none",
                            FALSE)
            /\ UNCHANGED <<store, fetched, firstLoad, initLoaded>>
    ELSE /\ lastOp' = Op("detect", 0, m,
                         IF IsEmptyMessage(m) THEN NotMatched
                         ELSE SyncTiers(Indices, m.text),
                         FALSE, "none", FALSE)
         /\ UNCHANGED <<engine, store, procs, history>>

\* ------------------------------------------------------------- store
\* The rule store changes: rules are edited, the migration runs, the
\* database goes away or comes back.
ChangeStore(s) ==
    /\ s # store
    /\ store' = s
    /\ lastOp' = Internal
    /\ UNCHANGED <<engine, procs, history>>

\* -------------------------------------------------------------- Next
Next ==
    \/ \E r \in Reloaders : Reload(r)
    \/ \E r \in Reloaders : OnErrorRulesUpdated(r)
    \/ \E p \in Procs : StoreQuery(p)
    \/ \E p \in Procs : AnswerArrives(p)
    \/ \E p \in Procs : FetchComplete(p)
    \/ \E c \in Callers : PollTick(c)
    \/ \E c \in Callers : AfterReload(c)
    \/ \E c \in Callers, m \in Messages : DetectAsync(c, m)
    \/ \E c \in Callers : Evaluate(c)
    \/ \E m \in Messages : Detect(m)
    \/ \E s \in StoreStates : ChangeStore(s)

Spec == Init /\ [][Next]_vars

\* ------------------------------------------------- lookup specification
\* The tiers as a function of the rule list and the message: the store
\* holds any list of up to MaxRules rules of RuleUniverse and does not
\* change, reload() is called at most once and before any other load, and
\* the callers ask one at a time for any message of up to MaxMsgLen
\* characters.
Alphabet == {"a", "B", " "}

StringsUpTo(n) == UNION {[1..k -> Alphabet] : k \in 0..n}

LookupMessages == {AbsentMsg} \cup {Msg(t) : t \in StringsUpTo(MaxMsgLen)}

RuleUniverse ==
    { Rule("contains", <<"a">>, "k1"),
      Rule("contains", <<"A", "B">>, "k2"),
      Rule("exact", <<"A">>, "k3"),
      Rule("exact", <<"b">>, "k4"),
      Rule("regex", <<"a">>, "k5"),
      Rule("regex", <<"^", "b">>, "k6") }

RuleLists == UNION {[1..k -> RuleUniverse] : k \in 0..MaxRules}

NoCallerActive == \A c \in Callers : pc[c] = "idle"

InitLookup ==
    /\ regexPatterns = <<>>
    /\ containsPatterns = <<>>
    /\ exactPatterns = <<>>
    /\ lastReloadTime = 0
    /\ isLoading = FALSE
    /\ isInitialized = FALSE
    /\ store \in {Up(rules) : rules \in RuleLists}
    /\ pc = [p \in Procs |-> "idle"]
    /\ arg = [c \in Callers |-> AbsentMsg]
    /\ kind = [c \in Callers |-> "async"]
    /\ cohort = [c \in Callers |-> FALSE]
    /\ fetched = [p \in Procs |-> NoAnswer]
    /\ atCall = [p \in Procs |-> NoCall]
    /\ fetchCount = 0
    /\ firstLoad = [done |-> FALSE, snap |-> EmptyIndices]
    /\ initLoaded = FALSE
    /\ lastOp = Op("init", 0, AbsentMsg, NotMatched, FALSE, "none", FALSE)

NextLookup ==
    \/ \E r \in Reloaders : fetchCount = 0 /\ Reload(r)
    \/ \E p \in Procs : StoreQuery(p)
    \/ \E p \in Procs : AnswerArrives(p)
    \/ \E p \in Procs : FetchComplete(p)
    \/ \E c \in Callers : PollTick(c)
    \/ \E c \in Callers : AfterReload(c)
    \/ \E c \in Callers, m \in LookupMessages :
            NoCallerActive /\ DetectAsync(c, m)
    \/ \E c \in Callers : Evaluate(c)
    \/ \E m \in LookupMessages : NoCallerActive /\ Detect(m)

SpecLookup == InitLookup /\ [][NextLookup]_vars

\* ------------------------------------------- notification specification
\* Every store fetch succeeds, and the rule set changes only together with
\* the delivery of its errorRulesUpdated notification: the listener of
\* lines 73-77 runs as soon as the change is made.
NotifyStores == {Up(RulesOne), Up(RulesTwo)}

RuleSetUpdated(s, r) ==
    /\ s \in NotifyStores
    /\ s # store
    /\ store' = s
    /\ FreeSlot(Reloaders, r)
    /\ ReloadCall(r, "idle")
    /\ lastOp' = Op("event", r, AbsentMsg, NotMatched, FALSE,
                    ReloadCallLog, FALSE)
    /\ UNCHANGED <<arg, kind, cohort, fetched, firstLoad, initLoaded>>

InitNotify == Init /\ store \in NotifyStores

NextNotify ==
    \/ \E r \in Reloaders : Reload(r)
    \/ \E r \in Reloaders, s \in NotifyStores : RuleSetUpdated(s, r)
    \/ \E p \in Procs : StoreQuery(p)
    \/ \E p \in Procs : AnswerArrives(p)
    \/ \E p \in Procs : FetchComplete(p)
    \/ \E c \in Callers : PollTick(c)
    \/ \E c \in Callers : AfterReload(c)
    \/ \E c \in Callers, m \in Messages : DetectAsync(c, m)
    \/ \E c \in Callers : Evaluate(c)
    \/ \E m \in Messages : Detect(m)

SpecNotify == InitNotify /\ [][NextNotify]_vars

\* ------------------------------------------------ faulty specification
\* The store may return a row whose pattern is no string.
RulesBad ==
    << Rule("contains", <<"b">>, "c10"),
       Rule("exact", NullPattern, "c11"),
       Rule("regex", <<"a">>, "c12") >>

FaultyStores == {Up(RulesOne), Up(RulesBad), Down}

InitFaulty == Init /\ store \in FaultyStores

NextFaulty ==
    \/ \E r \in Reloaders : Reload(r)
    \/ \E r \in Reloaders : OnErrorRulesUpdated(r)
    \/ \E p \in Procs : StoreQuery(p)
    \/ \E p \in Procs : AnswerArrives(p)
    \/ \E p \in Procs : FetchComplete(p)
    \/ \E c \in Callers : PollTick(c)
    \/ \E c \in Callers : AfterReload(c)
    \/ \E c \in Callers, m \in Messages : DetectAsync(c, m)
    \/ \E c \in Callers : Evaluate(c)
    \/ \E m \in Messages : Detect(m)
    \/ \E s \in FaultyStores : ChangeStore(s)

SpecFaulty == InitFaulty /\ [][NextFaulty]_vars

\* ---------------------------------------------- progress specification
\* The runs in which every store fetch is answered and every queued
\* continuation runs: the store answers a query it was sent, the event loop
\* runs the promise jobs it has queued, and it gets to the I/O callback of
\* an answer whenever the job queue has drained, however often new jobs are
\* queued in between.  The callers ask one at a time, so that the job queue
\* does drain; the store may fail and may return a faulty row.
LiveMessages == {Msg(<<"a", "B">>)}

NextLive ==
    \/ \E r \in Reloaders : Reload(r)
    \/ \E r \in Reloaders : OnErrorRulesUpdated(r)
    \/ \E p \in Procs : StoreQuery(p)
    \/ \E p \in Procs : AnswerArrives(p)
    \/ \E p \in Procs : FetchComplete(p)
    \/ \E c \in Callers : PollTick(c)
    \/ \E c \in Callers : AfterReload(c)
    \/ \E c \in Callers, m \in LiveMessages :
            NoCallerActive /\ DetectAsync(c, m)
    \/ \E c \in Callers : Evaluate(c)
    \/ \E s \in FaultyStores : ChangeStore(s)

Fairness ==
    /\ \A p \in Procs : WF_vars(StoreQuery(p))
    /\ \A p \in Procs : SF_vars(AnswerArrives(p))
    /\ \A p \in Procs : WF_vars(FetchComplete(p))
    /\ \A c \in Callers : WF_vars(AfterReload(c))
    /\ \A c \in Callers : WF_vars(Evaluate(c))

SpecLive == InitFaulty /\ [][NextLive]_vars /\ Fairness

\* ==================================================================
\* Properties
\* ==================================================================
InFlight == {p \in Procs : pc[p] \in {"fetching", "answered", "settled"}}

IsReloadRequest(op) == op.op \in {"reload", "event"}

\* C1: under every interleaving of reload() calls, change notifications,
\* detectAsync() calls and detect() calls, at most one store fetch is in
\* flight, and one is in flight exactly while isLoading is set.
C1_AtMostOneFetchInFlight ==
    /\ Cardinality(InFlight) <= 1
    /\ isLoading <=> InFlight # {}

\* A reload request has just been turned away while a fetch is in flight and
\* an initializing caller polls.
C1_Witness ==
    /\ Cardinality(InFlight) = 1
    /\ IsReloadRequest(lastOp) /\ lastOp.log = "warn"
    /\ \E c \in Callers : pc[c] = "polling"

\* C2: a reload() request that arrives while another reload is in flight
\* returns at once: it starts no fetch and leaves the indices,
\* lastReloadTime, isLoading and isInitialized as they are, so that two
\* back-to-back requests make one fetch-and-swap cycle.
C2_ConcurrentReloadIsNoOp ==
    [][ (IsReloadRequest(lastOp') /\ isLoading) =>
            /\ UNCHANGED <<engine, pc, fetched, fetchCount>>
            /\ InFlight' = InFlight
            /\ ~lastOp'.threw ]_vars

\* Two reload() activations were started back to back; the first one's
\* fetch is the only one.
C2_Witness ==
    /\ lastOp.op = "reload" /\ lastOp.log = "warn"
    /\ lastOp.proc \in Reloaders
    /\ \E r \in Reloaders : r # lastOp.proc /\ pc[r] = "fetching"
    /\ fetchCount = 1

\* C3: when the store fetch of a reload fails (table not found or any other
\* error) the three indices are what they were before the call, getStats()
\* reports the same three counts and the same lastReloadTime, and reload()
\* returns normally.
C3_FailedFetchKeepsSnapshot ==
    [][ \A p \in Procs :
            (pc[p] = "settled" /\ pc'[p] # "settled"
                /\ fetched[p].status # "ok") =>
                /\ atCall[p].held
                /\ Indices' = atCall[p].indices
                /\ GetStats'.regexCount = Len(atCall[p].indices.regex)
                /\ GetStats'.containsCount = Len(atCall[p].indices.contains)
                /\ GetStats'.exactCount = Len(atCall[p].indices.exact)
                /\ GetStats'.lastReloadTime = atCall[p].lastReloadTime
                /\ ~lastOp'.threw
                /\ ~isLoading' ]_vars

\* A populated snapshot has just survived a failed reload.
C3_Witness ==
    /\ lastOp.op = "fetchComplete" /\ lastOp.log \in {"warn", "error"}
    /\ ~IsEmpty
    /\ lastReloadTime = 1 /\ fetchCount = 2

\* The snapshot a rule list stands for, tier by tier.
ContainsOf(rules) ==
    LET sel == SelectSeq(rules, LAMBDA r : r.matchType = "contains")
    IN  [i \in 1..Len(sel) |->
            [text |-> ToLowerCase(sel[i].pattern), category |-> sel[i].category]]

RegexOf(rules) ==
    LET sel == SelectSeq(rules, LAMBDA r :
                    r.matchType = "regex" /\ SafeRegex(r.pattern)
                        /\ Compiles(r.pattern))
    IN  [i \in 1..Len(sel) |->
            [pattern |-> sel[i].pattern, category |-> sel[i].category]]

\* The exact table as a set: for each key the category of the last rule
\* that has it.
ExactOf(rules) ==
    LET ex == SelectSeq(rules, LAMBDA r : r.matchType = "exact")
        key(i) == ToLowerCase(ex[i].pattern)
    IN  { [text |-> key(i), category |-> ex[i].category] :
            i \in { j \in 1..Len(ex) :
                        \A k \in (j + 1)..Len(ex) : key(k) # key(j) } }

IsSnapshotOf(idx, rules) ==
    /\ idx.contains = ContainsOf(rules)
    /\ idx.regex = RegexOf(rules)
    /\ {idx.exact[i] : i \in 1..Len(idx.exact)} = ExactOf(rules)
    /\ Len(idx.exact) = Cardinality(ExactOf(rules))

FetchableRules ==
    {s.rules : s \in {t \in StoreStates \cup FaultyStores : t.status = "ok"}}

\* C4: in every state a lookup can observe, the three indices are the
\* compilation of one single fetched rule list, and they are all empty
\* before the first successful reload: never a mix of two lists, never a
\* cleared and not yet refilled snapshot.
C4_IndicesAreOneSnapshot ==
    /\ lastReloadTime = 0 => IsEmpty
    /\ lastReloadTime # 0 =>
          \E rules \in FetchableRules : IsSnapshotOf(Indices, rules)

IsAsyncReturn(op) ==
    op.op = "detectAsync.return" /\ ~IsEmptyMessage(op.arg)

\* C5: the detectAsync() calls with non-empty messages started before the
\* first load completed have exactly one store fetch performed for all of
\* them, whether it succeeds or fails, and each of them evaluates against
\* the same snapshot, the one that load left.
C5_CohortSharesFirstLoad ==
    /\ \A c \in Callers :
          (cohort[c] /\ c \in InFlight) => fetchCount = 1 /\ InFlight = {c}
    /\ (IsAsyncReturn(lastOp) /\ lastOp.coh) =>
          /\ firstLoad.done
          /\ Indices = firstLoad.snap

\* C6: whenever a detectAsync() call with a non-empty message evaluates
\* the tiers, the initialized flag is true.
C6_InitializedAtEvaluation ==
    IsAsyncReturn(lastOp) => isInitialized

IsDetectCall(op) == op.op \in {"detect", "detectAsync.call"}

\* C7: once a load started by detect() or detectAsync() has completed,
\* successfully or not, no later detect() or detectAsync() call starts a
\* store fetch.
C7_NoFetchAfterInitializingLoad ==
    [][ (initLoaded /\ IsDetectCall(lastOp')) =>
            fetchCount' = fetchCount ]_vars

\* C8: detect() never waits.  On an engine that is not initialized it
\* returns {matched: false} in the same step for any message and starts the
\* initialization in the background; it returns matched: true only on an
\* initialized engine.
C8_SyncDetectNeverWaits ==
    lastOp.op = "detect" =>
        /\ lastOp.ret.matched => isInitialized
        /\ ~isInitialized =>
              /\ lastOp.ret = NotMatched
              /\ lastOp.proc \in Callers
              /\ kind[lastOp.proc] = "bg"
              /\ pc[lastOp.proc] \in {"fetching", "polling"}
              /\ isLoading

\* detect() with a message has just returned not-matched on a cold engine
\* and its background load is in flight.
C8_Witness ==
    /\ lastOp.op = "detect" /\ ~IsEmptyMessage(lastOp.arg)
    /\ ~isInitialized
    /\ lastOp.ret = NotMatched
    /\ pc[lastOp.proc] = "fetching"

\* C9: for an empty or absent message both entry points return
\* {matched: false} in every engine state without starting a store fetch
\* and without changing any engine state.
C9_EmptyMessageTouchesNothing ==
    [][ (lastOp'.op \in {"detect", "detectAsync.call", "detectAsync.return"}
            /\ IsEmptyMessage(lastOp'.arg)) =>
            /\ lastOp'.ret = NotMatched
            /\ UNCHANGED <<engine, pc, fetchCount>> ]_vars

\* The tier a message falls in, stated on the indices without the walk.
ContainsMatches(idx, text) ==
    \E i \in 1..Len(idx.contains) :
        Includes(ToLowerCase(text), idx.contains[i].text)

ExactMatches(idx, text) ==
    \E i \in 1..Len(idx.exact) :
        idx.exact[i].text = Trim(ToLowerCase(text))

RegexMatches(idx, text) ==
    \E i \in 1..Len(idx.regex) : RegexTest(idx.regex[i].pattern, text)

TierOf(idx, text) ==
    IF ContainsMatches(idx, text) THEN "contains"
    ELSE IF ExactMatches(idx, text) THEN "exact"
    ELSE IF RegexMatches(idx, text) THEN "regex"
    ELSE "none"

IsLookupReturn(op) ==
    op.op \in {"detect", "detectAsync.return"} /\ ~IsEmptyMessage(op.arg)

\* C10: for every loaded snapshot and every message, detect() and
\* detectAsync() answer from the containment tier if a containment entry
\* matches, otherwise from the exact tier if the trimmed lowercased message
\* is a key, otherwise from the regex tier, and not-matched if no tier
\* matches; a message that matches a containment rule and a regex rule
\* yields matchType "contains".
C10_TierPriority ==
    (IsLookupReturn(lastOp) /\ (lastOp.op = "detect" => isInitialized)) =>
        /\ lastOp.ret.matched <=> TierOf(Indices, lastOp.arg.text) # "none"
        /\ lastOp.ret.matched =>
              lastOp.ret.matchType = TierOf(Indices, lastOp.arg.text)
        /\ (ContainsMatches(Indices, lastOp.arg.text)
                /\ RegexMatches(Indices, lastOp.arg.text)) =>
              (lastOp.ret.matched /\ lastOp.ret.matchType = "contains")

\* detectAsync() has answered "contains" for a message that a regex entry
\* of the loaded snapshot matches as well.
C10_Witness ==
    /\ lastOp.op = "detectAsync.return"
    /\ lastReloadTime # 0
    /\ lastOp.ret.matched /\ lastOp.ret.matchType = "contains"
    /\ RegexMatches(Indices, lastOp.arg.text)

\* Whether a rule of the store's list hits a message in its tier.
ContainsRuleHits(rule, text) ==
    /\ rule.matchType = "contains"
    /\ Includes(ToLowerCase(text), ToLowerCase(rule.pattern))

RegexRuleHits(rule, text) ==
    /\ rule.matchType = "regex"
    /\ SafeRegex(rule.pattern) /\ Compiles(rule.pattern)
    /\ RegexTest(rule.pattern, text)

ExactRuleHits(rule, text) ==
    /\ rule.matchType = "exact"
    /\ ToLowerCase(rule.pattern) = Trim(ToLowerCase(text))

\* C11: among the containment rules (and likewise the regex rules) that
\* match a message, the result reports the category and the pattern of the
\* one that comes earliest in the list the store returned; if no rule of any
\* tier matches, the result is {matched: false}.
C11_FirstMatchWins ==
    (IsLookupReturn(lastOp) /\ lastReloadTime # 0) =>
        LET rules == store.rules
            text == lastOp.arg.text
            ret == lastOp.ret
        IN  /\ \A i \in 1..Len(rules) :
                  (/\ ContainsRuleHits(rules[i], text)
                   /\ \A j \in 1..(i - 1) : ~ContainsRuleHits(rules[j], text))
                  => ret = Matched(rules[i].category,
                                   ToLowerCase(rules[i].pattern), "contains")
            /\ \A i \in 1..Len(rules) :
                  (/\ RegexRuleHits(rules[i], text)
                   /\ \A j \in 1..(i - 1) : ~RegexRuleHits(rules[j], text)
                   /\ \A j \in 1..Len(rules) :
                          ~ContainsRuleHits(rules[j], text)
                              /\ ~ExactRuleHits(rules[j], text))
                  => ret = Matched(rules[i].category, rules[i].pattern,
                                   "regex")
            /\ (\A i \in 1..Len(rules) :
                    /\ ~ContainsRuleHits(rules[i], text)
                    /\ ~ExactRuleHits(rules[i], text)
                    /\ ~RegexRuleHits(rules[i], text))
                  => ret = NotMatched

\* Two different containment rules both match the message and the lookup
\* reported the first of them.
C11_Witness ==
    /\ IsLookupReturn(lastOp) /\ lastReloadTime # 0
    /\ Len(store.rules) = 2
    /\ store.rules[1] # store.rules[2]
    /\ ContainsRuleHits(store.rules[1], lastOp.arg.text)
    /\ ContainsRuleHits(store.rules[2], lastOp.arg.text)
    /\ lastOp.ret.matched /\ lastOp.ret.category = store.rules[1].category

\* Nothing is pending: no activation, no fetch, no timer.
Quiescent == (\A p \in Procs : pc[p] = "idle") /\ ~isLoading

\* C12: when the store's rule set has changed and the notification of the
\* change has been delivered, store fetches succeed and no further change
\* occurs, the engine comes to hold the snapshot compiled from the store's
\* current rule set, also when the notification arrives while another
\* reload is in flight.  Every change is notified and every fetch succeeds
\* in SpecNotify, so an engine that has loaded and has nothing left to do
\* holds the current rule set.
C12_NotifiedChangeIsPickedUp ==
    (Quiescent /\ lastReloadTime # 0) =>
        IsSnapshotOf(Indices, store.rules)

\* A rule the loop skips: rejected by the ReDoS screen, not compiling, or of
\* an unknown matchType.
IsSkipped(rule) ==
    \/ rule.matchType \notin {"contains", "exact", "regex"}
    \/ rule.matchType = "regex"
          /\ (~SafeRegex(rule.pattern) \/ ~Compiles(rule.pattern))

CategoriesOf(idx) ==
    {idx.contains[i].category : i \in 1..Len(idx.contains)}
        \cup {idx.exact[i].category : i \in 1..Len(idx.exact)}
        \cup {idx.regex[i].category : i \in 1..Len(idx.regex)}

\* A fetch that returned its rule list completes in this step.
CompletesFetched(p) ==
    pc[p] = "settled" /\ pc'[p] # "settled" /\ fetched[p].status = "ok"

\* C13: a rule that the ReDoS screen rejects, that fails to compile or that
\* has an unknown matchType is installed in no index and does not abort the
\* reload: every other rule of the fetched list is installed in its tier in
\* fetch order, lastReloadTime is updated and the engine is initialized.
C13_SkippedRulesDoNotAbort ==
    [][ \A p \in Procs :
            (CompletesFetched(p) /\ ~LoopThrows(fetched[p].rules)) =>
                LET rules == fetched[p].rules
                IN  /\ \A i \in 1..Len(rules) :
                          IsSkipped(rules[i]) <=>
                              rules[i].category \notin CategoriesOf(Indices')
                    /\ IsSnapshotOf(Indices', rules)
                    /\ lastReloadTime' = Now
                    /\ isInitialized'
                    /\ lastOp'.log = "info" /\ ~lastOp'.threw ]_vars

\* A list with a rule that does not compile and a rule of unknown type has
\* just been loaded and its other rules are installed.
C13_Witness ==
    /\ lastOp.op = "fetchComplete" /\ lastOp.log = "info"
    /\ IsSnapshotOf(Indices, RulesTwo)
    /\ \E i \in 1..Len(RulesTwo) : IsSkipped(RulesTwo[i])
    /\ Len(regexPatterns) = 1 /\ Len(containsPatterns) = 1
    /\ isInitialized /\ lastReloadTime # 0

\* C14: a reload that fails after the fetch has succeeded, by an error
\* raised while a fetched rule is processed outside the guard of the regex
\* compilation, leaves the indices as the call found them: none is cleared
\* or partly filled.
C14_ProcessingErrorKeepsSnapshot ==
    [][ \A p \in Procs :
            (CompletesFetched(p) /\ LoopThrows(fetched[p].rules)) =>
                /\ atCall[p].held
                /\ Indices' = atCall[p].indices ]_vars

\* C15: a detectAsync() call with a non-empty message evaluates the tiers
\* only after at least one reload attempt has completed, successfully or
\* not, and never while the first load is in flight.
C15_EvaluatesAfterFirstLoad ==
    IsAsyncReturn(lastOp) =>
        /\ firstLoad.done
        /\ ~(isLoading /\ fetchCount = 1)

\* A call started before the first load completed has evaluated after that
\* load failed, against the empty indices.
C15_Witness ==
    /\ IsAsyncReturn(lastOp) /\ lastOp.coh
    /\ firstLoad.done /\ fetchCount = 1
    /\ lastReloadTime = 0 /\ lastOp.ret = NotMatched

\* detect() on an initialized engine with a reload in flight answers from
\* the snapshot that reload found.
SyncLookupDuringReload ==
    (lastOp'.op = "detect" /\ ~IsEmptyMessage(lastOp'.arg)
        /\ isInitialized /\ isLoading) =>
        /\ UNCHANGED <<engine, pc>>
        /\ \A p \in InFlight :
              lastOp'.ret = SyncTiers(atCall[p].indices, lastOp'.arg.text)

\* detectAsync() on an initialized engine goes to the tiers without waiting.
AsyncLookupAdmitted ==
    (lastOp'.op = "detectAsync.call" /\ isInitialized) =>
        /\ pc'[lastOp'.proc] = "ready"
        /\ UNCHANGED <<engine, fetchCount>>

\* C16 as claimed: once the engine is initialized a reload in flight never
\* delays a lookup; detect() and detectAsync() do not wait for isLoading to
\* clear and return the result determined by the snapshot installed before
\* that reload started.
C16_LookupSeesSnapshotBeforeReload ==
    [][ /\ SyncLookupDuringReload
        /\ AsyncLookupAdmitted
        /\ \A c \in Callers :
              (pc[c] = "ready" /\ isInitialized /\ isLoading) =>
                  Indices' = Indices ]_vars

\* C16 amended: once the engine is initialized a reload in flight never
\* delays a lookup: detect() and detectAsync() do not wait for isLoading to
\* clear, and detectAsync() resumes before any store answer or timer is
\* handled.  detect() returns the result determined by the snapshot
\* installed before that reload started; detectAsync() evaluates against
\* the snapshot installed when it resumes, which is the one before the
\* reload started as long as the reload is in flight, and the reload's new
\* snapshot when the reload completed before the call resumed.
C16_LookupNotDelayed ==
    [][ /\ SyncLookupDuringReload
        /\ AsyncLookupAdmitted
        /\ (\E c \in Callers : pc[c] = "ready") =>
              /\ \A p \in Procs : pc[p] = "answered" => pc'[p] = "answered"
              /\ \A d \in Callers : pc[d] = "polling" => pc'[d] = "polling"
        /\ \A c \in Callers :
              (pc[c] = "ready" /\ pc'[c] # "ready") =>
                  /\ lastOp'.ret = AsyncTiers(Indices, arg[c].text)
                  /\ \A p \in InFlight : Indices = atCall[p].indices ]_vars

\* detectAsync() has answered from the loaded snapshot while a second
\* reload is still in flight.
C16_Witness ==
    /\ IsAsyncReturn(lastOp) /\ lastOp.ret.matched
    /\ isInitialized /\ isLoading
    /\ lastReloadTime = 1 /\ fetchCount = 2

\* reload() has just returned into the code that called it.
IsReloadEnd(op) == op.op = "fetchComplete"

\* C17: every reload attempt releases the loading flag and never raises:
\* whenever isLoading is set and the store fetch returns or fails,
\* isLoading becomes false again; reload() completes normally on the
\* success and on the failure path, leaving isLoading false; and a reload
\* requested while isLoading is false fetches again.
C17_ReloadReleasesLoading ==
    /\ isLoading ~> ~isLoading
    /\ [](~lastOp.threw)
    /\ [](IsReloadEnd(lastOp) => ~isLoading)
    /\ [][ (IsReloadRequest(lastOp') /\ ~isLoading) =>
             /\ isLoading'
             /\ pc'[lastOp'.proc] = "fetching"
             /\ fetchCount' = fetchCount + 1 ]_vars

\* A second reload has fetched after a failed one, has failed too and has
\* released isLoading.
C17_Witness ==
    /\ IsReloadEnd(lastOp) /\ lastOp.log = "error" /\ ~lastOp.threw
    /\ fetchCount = 2 /\ lastReloadTime = 0
    /\ ~isLoading

\* Caller c waits in the loop of lines 92-94 for the first load, which it
\* found in progress, and that load has completed.
WaitsForCompletedLoad(c) ==
    /\ pc[c] = "polling"
    /\ cohort[c]
    /\ firstLoad.done

\* The 100 ms timer of a waiting caller may fire: no promise job is queued
\* ahead of it.
TimerMayFire == ~JobQueued

\* C18: every detectAsync() call returns; a caller that found a load in
\* progress stops waiting once that load has completed, also when further
\* reloads are started while it polls: whenever its timer fires after that
\* load completed, the loop of lines 92-94 lets it go.
C18_PollerLeavesOnceLoadCompletes ==
    \A c \in Callers :
        (WaitsForCompletedLoad(c) /\ TimerMayFire) => ~isLoading

\* What detectAsync() returns for message m on the indices idx (lines
\* 215-259), and what detect() returns for it on an initialized engine
\* (lines 273-315).
AsyncResult(idx, m) ==
    IF IsEmptyMessage(m) THEN NotMatched ELSE AsyncTiers(idx, m.text)

SyncResult(idx, m) ==
    IF IsEmptyMessage(m) THEN NotMatched ELSE SyncTiers(idx, m.text)

\* C19: on an initialized engine detect() and detectAsync() return the
\* same result (matched, category, pattern, matchType) for every message
\* and every snapshot: what either one has just returned is what the other
\* one returns for that message on the installed indices.
C19_SyncAndAsyncAgree ==
    isInitialized =>
        /\ lastOp.op = "detect" =>
                lastOp.ret = AsyncResult(Indices, lastOp.arg)
        /\ lastOp.op = "detectAsync.return" =>
                lastOp.ret = SyncResult(Indices, lastOp.arg)

\* detect() has answered from the exact tier for a message with
\* surrounding whitespace.
C19_Witness ==
    /\ isInitialized
    /\ lastOp.op = "detect"
    /\ lastOp.ret.matched /\ lastOp.ret.matchType = "exact"
    /\ Trim(lastOp.arg.text) # lastOp.arg.text

\* A reload has just ended on its success path (lines 178-185).
IsSuccessfulReloadEnd(op) == IsReloadEnd(op) /\ op.log = "info"

\* C20: in every reachable state, if any of the three indices is non-empty
\* then the engine is initialized and lastReloadTime is non-zero; the
\* initialized flag, once true, never becomes false again; and
\* lastReloadTime changes only at the end of a successful reload.
C20_IndicesImplyInitialized ==
    /\ [](~IsEmpty => (isInitialized /\ lastReloadTime # 0))
    /\ [][isInitialized => isInitialized']_vars
    /\ [][lastReloadTime' # lastReloadTime =>
             IsSuccessfulReloadEnd(lastOp')]_vars

====
